---- MODULE Spec2Model ----
(***************************************************************************)
(* Model of @cfs/date-helpers (src/index.js): the holiday test, the        *)
(* end-date projector, the business-day counter and the duration           *)
(* aggregator, over civil dates of the America/Chicago zone.               *)
(*                                                                         *)
(* A date value carries the wall-clock fields of its own zone: a day       *)
(* number (day 0 is Monday 2024-06-17, the anchor day of the test suite)   *)
(* and the milliseconds since local midnight.  All modelled days lie in    *)
(* June/July 2024, inside daylight time, so America/Chicago is UTC-5       *)
(* throughout.  An ISO string is modelled by the fields its text spells    *)
(* out: two strings are the same text iff their records are equal.         *)
(***************************************************************************)
EXTENDS Integers, Sequences, FiniteSets, TLC

VARIABLES
    pc,             \* "idle", "getEnd.loop", "count.loop", "default.loop" or "done"
    op,             \* the exported function the caller invoked
    args,           \* the arguments of that call
    caller,         \* who entered countCfsBusinessDays: "top", "duration.active", "duration.charge"
    endDate,        \* getEndDateByChargePeriod: let endDate
    chargeableDays, \* getEndDateByChargePeriod: let chargeableDays
    calendarDays,   \* countCfsBusinessDays: let calendarDays
    days,           \* countCfsBusinessDays: let days
    lastTested,     \* countCfsBusinessDays: let lastTested
    lastDay,        \* countCfsBusinessDays: const lastDay
    active,         \* getDuration: const active
    theDay,         \* getDefaultStartDate: let day
    ret,            \* what the call returned or threw
    trip,           \* the charge period a round trip started from, 0 outside a round trip
    given,          \* the caller's own objects (date, end, holidays, dates) as the call leaves them
    before          \* <<r>>: what the same call gave the time before; <<r, a>>: what
                    \* the call before gave for the arguments a; else <<>>

vars == <<pc, op, args, caller, endDate, chargeableDays, calendarDays, days,
          lastTested, lastDay, active, ret, trip, theDay, given, before>>

-----------------------------------------------------------------------------
(* Bounds of the model *)

\* last civil day an argument may lie on (days 1..LastDay: two weekends with LastDay >= 6)
LastDay == 9
\* longest holiday list
MaxHolidays == 2
\* largest charge period
MaxPeriod == 4
\* the day walks stop being followed past this civil day
MaxDay == 14
\* a charge period that is no integer is a number of 1/Parts of a day
Parts == 4

-----------------------------------------------------------------------------
(* Time, zones and date values: date-fns and @date-fns/tz *)

HourMs == 60 * 60 * 1000
DayMs == 24 * HourMs

Chicago == "America/Chicago"
SystemZone == "UTC"

\* UTC offset of a zone's wall clock, in milliseconds
Offset(zone) == IF zone = Chicago THEN -(5 * HourMs) ELSE 0

\* new TZDate(y, m, d, h, mi, s, "America/Chicago")
TZDate(day, ms) == [kind |-> "date", zone |-> Chicago, day |-> day, ms |-> ms]
\* new Date(...): a date of the system zone
PlainDate(day, ms) == [kind |-> "date", zone |-> SystemZone, day |-> day, ms |-> ms]
\* new Date("invalid"), constructFrom(ctx, NaN)
InvalidDate(zone) == [kind |-> "invalid", zone |-> zone, day |-> 0, ms |-> 0]
\* null / undefined passed where a date is expected
Null == [kind |-> "null", zone |-> "", day |-> 0, ms |-> 0]

\* a test for null alone: an Invalid Date passes
IsValid_NotNull(d) == d.kind # "null"

\* date-fns isValid: false for null, undefined and Invalid Date
IsValid(d) == d.kind = "date"

\* wall-clock fields carried over midnight in either direction
Normalize(zone, day, ms) ==
    [kind |-> "date", zone |-> zone, day |-> day + (ms \div DayMs), ms |-> ms % DayMs]

\* constructFrom(context, date): the same instant seen in another zone
InZone(d, zone) ==
    IF d.kind # "date" THEN InvalidDate(zone)
    ELSE Normalize(zone, d.day, d.ms + Offset(zone) - Offset(d.zone))

\* date-fns addDays: setDate(getDate() + amount) on a copy, wall-clock time kept
AddDays(d, amount) ==
    IF d.kind # "date" THEN d ELSE [d EXCEPT !.day = @ + amount]

\* addDays setting the day of the month on the very object it is given
AddDaysLeaves_InPlace(d, amount) ==
    IF d.kind # "date" THEN d ELSE [d EXCEPT !.day = @ + amount]

\* what addDays leaves in the object it is given: it works on toDate(date), a copy
AddDaysLeaves(d, amount) == d

\* Date.prototype.getDay in the date's own zone: 0 Sunday .. 6 Saturday
GetDay(d) == (d.day + 1) % 7

\* Saturday taken for a working day
IsWeekend_SundayOnly(d) == d.kind = "date" /\ GetDay(d) = 0

\* date-fns isWeekend(date), no `in` option: the date's own zone
IsWeekend(d) == d.kind = "date" /\ (GetDay(d) = 0 \/ GetDay(d) = 6)

\* date-fns isSameDay(laterDate, earlierDate): both normalised to the context of
\* the first date, then +startOfDay equal (NaN is equal to nothing)
IsSameDay(laterDate, earlierDate) ==
    LET a == InZone(laterDate, laterDate.zone)
        b == InZone(earlierDate, laterDate.zone)
    IN  a.kind = "date" /\ b.kind = "date" /\ a.day = b.day

\* Date.prototype.valueOf: milliseconds from 00:00 UTC of the model's day 0
Timestamp(d) == d.day * DayMs + d.ms - Offset(d.zone)

\* a date on the boundary taken for a date before it
IsBefore_OrEqual(date, dateToCompare) == Timestamp(date) <= Timestamp(dateToCompare)

\* date-fns isBefore: +date < +dateToCompare
IsBefore(date, dateToCompare) == Timestamp(date) < Timestamp(dateToCompare)

\* date-fns isAfter: +date > +dateToCompare
IsAfter(date, dateToCompare) == Timestamp(date) > Timestamp(dateToCompare)

\* date-fns getHours: the hour field of the date's own wall clock
GetHours(d) == d.ms \div HourMs

\* only the hour field set: minutes, seconds and milliseconds kept
SetHour_HourOnly(d, hours) == [d EXCEPT !.ms = hours * HourMs + (d.ms % HourMs)]

\* date-fns set(date, { hours, minutes: 0, seconds: 0, milliseconds: 0 }) in the
\* date's own zone
SetHour(d, hours) == [d EXCEPT !.ms = hours * HourMs]

\* what set leaves in the object it is given: it too works on a copy
SetLeaves(d, hours) == d

\* set(date, {...}, { in: tz("America/Chicago") }): the date is first taken into
\* America/Chicago, then its time fields are set
SetHourInChicago(d, hours) == SetHour(InZone(d, Chicago), hours)

-----------------------------------------------------------------------------
(* ISO strings *)

\* "2024-06-20"
DateString(day) == [form |-> "date", day |-> day, ms |-> 0, off |-> 0]
\* "2024-06-20T09:00:00.000-05:00" / "...Z": wall-clock fields at an explicit offset
OffsetString(day, ms, off) == [form |-> "offset", day |-> day, ms |-> ms, off |-> off]
\* "2024-06-20T09:00:00": no zone designator
LocalString(day, ms) == [form |-> "local", day |-> day, ms |-> ms, off |-> 0]
\* "not-a-date"
GarbageString == [form |-> "garbage", day |-> 0, ms |-> 0, off |-> 0]
\* ""
EmptyString == [form |-> "empty", day |-> 0, ms |-> 0, off |-> 0]
\* a property that is absent from the object
Undefined == [form |-> "undefined", day |-> 0, ms |-> 0, off |-> 0]

\* a test for undefined alone: the empty string passes
Truthy_EmptyPasses(s) == s.form # "undefined"

\* JavaScript truthiness of a string-or-undefined value
Truthy(s) == s.form # "empty" /\ s.form # "undefined"

\* the designator of the string dropped: its fields read as Chicago wall-clock time
ParseISO_OffsetIgnored(s) ==
    CASE s.form = "date"   -> TZDate(s.day, 0)
      [] s.form = "local"  -> TZDate(s.day, s.ms)
      [] s.form = "offset" -> TZDate(s.day, s.ms)
      [] OTHER             -> InvalidDate(Chicago)

\* parseISO(s, { in: tz("America/Chicago") }): a string without designator is read
\* as Chicago wall-clock time, one with a designator is an instant shown in Chicago
ParseISO(s) ==
    CASE s.form = "date"   -> TZDate(s.day, 0)
      [] s.form = "local"  -> TZDate(s.day, s.ms)
      [] s.form = "offset" -> Normalize(Chicago, s.day, s.ms - s.off + Offset(Chicago))
      [] OTHER             -> InvalidDate(Chicago)

\* TZDate.prototype.toISOString: the date's wall-clock fields with its zone's offset
ToISOString(d) == OffsetString(d.day, d.ms, Offset(d.zone))

-----------------------------------------------------------------------------
(* Results *)

NoValue == [none |-> TRUE]
Throw(msg) == [threw |-> TRUE, error |-> msg, value |-> NoValue]
Return(v) == [threw |-> FALSE, error |-> "", value |-> v]
NoReturn == [threw |-> FALSE, error |-> "", value |-> NoValue]

\* Array.isArray
\* typeof holidays === "object": arrays, plain objects and null pass
IsArray_TypeofObject(holidays) == holidays.type \in {"array", "object", "null"}

IsArray(holidays) == holidays.type = "array"
Array(items) == [type |-> "array", items |-> items]
NotAnArray == [type |-> "null", items |-> <<>>]
\* a string and a plain object given as holidays
NonArrays == {NotAnArray, [type |-> "string", items |-> <<>>],
              [type |-> "object", items |-> <<>>]}

-----------------------------------------------------------------------------
(* isHoliday *)

\* the loop returning after its first entry whatever the comparison gave
HolidayLoop_FirstOnly(testDate, items, i) ==
    IF i > Len(items) THEN FALSE
    ELSE IsSameDay(ParseISO(items[i]), testDate)

\* the for-of loop of isHoliday from entry i on
RECURSIVE HolidayLoop(_, _, _)
HolidayLoop(testDate, items, i) ==
    IF i > Len(items) THEN FALSE
    ELSE IF IsSameDay(ParseISO(items[i]), testDate) THEN TRUE
    ELSE HolidayLoop(testDate, items, i + 1)

IsHoliday(testDate, holidays) ==
    IF testDate.kind = "null" \/ ~IsValid(testDate)
    THEN Throw("testDate must be a valid date object")
    ELSE IF ~IsArray(holidays)
    THEN Throw("holidays must be an array")
    ELSE Return(HolidayLoop(testDate, holidays.items, 1))

-----------------------------------------------------------------------------
(* isOffHours *)

IsOffHours(date) ==
    IF date.kind = "null" \/ ~IsValid(date)
    THEN Throw("date must be a valid date object")
    ELSE LET open  == SetHourInChicago(date, 8)
             close == SetHourInChicago(date, 16)
         IN  IF IsBefore(date, open) \/ IsAfter(date, close)
             THEN Return(TRUE)
             ELSE Return(FALSE)

-----------------------------------------------------------------------------
(* JavaScript numbers and their text *)

\* the quotient rounded down to a whole number
Divide_Floor(n, d) == [num |-> n \div d, den |-> 1]

\* the number n / d, kept exact
Divide(n, d) == [num |-> n, den |-> d]

\* String(n) of an integer
IntToString(n) == ToString(n)

\* the fraction dropped from the text
NumberToString_Whole(q) == ToString(q.num \div q.den)

\* String(q) of a quotient by 5: whole, or whole plus one decimal digit
NumberToString(q) ==
    LET whole == q.num \div q.den
        rest  == q.num % q.den
    IN  IF rest = 0 THEN ToString(whole)
        ELSE ToString(whole) \o "." \o ToString((rest * 10) \div q.den)

-----------------------------------------------------------------------------
(* countCfsBusinessDays: weeks, label and periodLabel of the counted days *)

\* five days still labelled "days"
Label_FiveIsDays(d) ==
    IF d = 1 THEN "day"
    ELSE IF d > 1 /\ d <= 5 THEN "days"
    ELSE IF d > 5 THEN "weeks"
    ELSE ""

Label(d) ==
    IF d = 1 THEN "day"
    ELSE IF d > 1 /\ d < 5 THEN "days"
    ELSE IF d = 5 THEN "week"
    ELSE IF d > 5 THEN "weeks"
    ELSE ""

PeriodLabel(d, weeks) ==
    IF d = 1 THEN IntToString(d) \o " day"
    ELSE IF d > 1 /\ d < 5 THEN IntToString(d) \o " days"
    ELSE IF d = 5 THEN NumberToString(weeks) \o " week"
    ELSE IF d > 5 THEN NumberToString(weeks) \o " weeks"
    ELSE ""

CountResult(calDays, d) ==
    LET weeks == Divide(d, 5)
        calendarWeeks == Divide(calDays, 5)
    IN  [calendarDays |-> calDays, calendarWeeks |-> calendarWeeks,
         days |-> d, weeks |-> weeks,
         label |-> Label(d), periodLabel |-> PeriodLabel(d, weeks)]

\* the record getDuration returns
DurationRecord(a, c) ==
    [activeDays |-> a.days, activeWeeks |-> a.weeks,
     activeLabel |-> a.label, activePeriodLabel |-> a.periodLabel,
     chargeDays |-> c.days, chargeWeeks |-> c.weeks,
     chargeLabel |-> c.label, chargePeriodLabel |-> c.periodLabel]

-----------------------------------------------------------------------------
(* Arguments the callers pass *)

TimesOfDay == {9 * HourMs, 17 * HourMs}

\* TZDate arguments, as the test suite builds them
Dates == {TZDate(d, t) : d \in 1..LastDay, t \in TimesOfDay}

\* arguments that are no valid date
BadDates == {Null, InvalidDate(SystemZone)}

\* candidates of isHoliday: also plain dates, whose zone is not America/Chicago
TestDates == Dates \cup {PlainDate(d, 2 * HourMs) : d \in 1..LastDay}

MinuteMs == 60 * 1000

\* times of day around the opening and closing hours
ClockTimes ==
    {0, 8 * HourMs - 1, 8 * HourMs, 8 * HourMs + 1, 8 * HourMs + 30 * MinuteMs,
     9 * HourMs - 1, 9 * HourMs, 16 * HourMs - 1, 16 * HourMs, 16 * HourMs + 1,
     DayMs - 1}

\* readings of the clock: TZDate.tz("America/Chicago")
Nows == {TZDate(d, t) : d \in 1..LastDay, t \in ClockTimes}

\* arguments of isOffHours: Chicago dates, and plain dates five hours ahead of them
ClockDates ==
    {TZDate(d, t) : d \in 1..LastDay, t \in ClockTimes}
        \cup {PlainDate(d, 13 * HourMs + x) : d \in 1..LastDay, x \in {-1, 0, 1}}
        \cup {PlainDate(d, 21 * HourMs + x) : d \in 1..LastDay, x \in {-1, 0, 1}}
        \cup {PlainDate(d, 2 * HourMs) : d \in 1..LastDay}

\* Thursday 20th; Saturday 22nd; an instant of Tuesday 25th 02:00 UTC, which is
\* Monday 24th 21:00 in Chicago; Thursday 20th again, spelled with its offset
HolidayStrings ==
    {DateString(3), DateString(5), OffsetString(8, 2 * HourMs, 0),
     OffsetString(3, 0, Offset(Chicago))}

SeqsUpTo(S, n) == UNION {[1..k -> S] : k \in 0..n}

HolidayLists == {Array(items) : items \in SeqsUpTo(HolidayStrings, MaxHolidays)}

HolidayArgs == HolidayLists \cup NonArrays

Periods == -1..MaxPeriod

\* delivery_start / collection_start / charge_start / charge_end values
WindowStrings ==
    {ToISOString(TZDate(2, 9 * HourMs)), ToISOString(TZDate(4, 17 * HourMs)),
     OffsetString(7, 2 * HourMs, 0), ToISOString(TZDate(9, 17 * HourMs))}

RequiredStrings == WindowStrings \cup {GarbageString, EmptyString, Undefined}
ChargeStrings ==
    {ToISOString(TZDate(2, 9 * HourMs)), ToISOString(TZDate(3, 9 * HourMs)),
     OffsetString(7, 2 * HourMs, 0), GarbageString, EmptyString, Undefined}

DatesObject(ds, cs, chs, che) ==
    [type |-> "object", delivery_start |-> ds, collection_start |-> cs,
     charge_start |-> chs, charge_end |-> che]
NullDates ==
    [type |-> "null", delivery_start |-> Undefined, collection_start |-> Undefined,
     charge_start |-> Undefined, charge_end |-> Undefined]

\* getDuration(undefined, ...) and getDuration("invalid", ...)
NonObjects == {NullDates, [NullDates EXCEPT !.type = "undefined"],
               [NullDates EXCEPT !.type = "string"]}

DatesArgs ==
    {DatesObject(ds, cs, chs, che) :
        ds \in RequiredStrings, cs \in RequiredStrings,
        chs \in ChargeStrings, che \in ChargeStrings} \cup NonObjects

\* period and parts are the chargePeriod argument: period + parts/Parts days
NoArgs == [date |-> Null, end |-> Null, period |-> 0, parts |-> 0,
           holidays |-> NotAnArray, dates |-> NullDates, now |-> Null]

-----------------------------------------------------------------------------
(* The calls *)

Init ==
    /\ pc = "idle"
    /\ op = "none"
    /\ args = NoArgs
    /\ caller = "top"
    /\ endDate = Null
    /\ chargeableDays = 0
    /\ calendarDays = 0
    /\ days = 0
    /\ lastTested = Null
    /\ lastDay = Null
    /\ active = NoValue
    /\ theDay = Null
    /\ ret = NoReturn
    /\ trip = 0
    /\ given = NoArgs
    /\ before = <<>>

\* return or throw out of the exported function
Finish(r) ==
    /\ pc' = "done"
    /\ ret' = r

\* isHoliday(testDate, holidays)
CallIsHoliday(testDate, holidays) ==
    /\ pc = "idle"
    /\ op' = "isHoliday"
    /\ args' = [NoArgs EXCEPT !.date = testDate, !.holidays = holidays]
    /\ Finish(IsHoliday(testDate, holidays))
    /\ UNCHANGED <<caller, endDate, chargeableDays, calendarDays, days,
                   lastTested, lastDay, active, trip, theDay>>
    /\ given' = args'
    /\ UNCHANGED before

\* isOffHours(date)
CallIsOffHours(date) ==
    /\ pc = "idle"
    /\ op' = "isOffHours"
    /\ args' = [NoArgs EXCEPT !.date = date]
    /\ Finish(IsOffHours(date))
    /\ UNCHANGED <<caller, endDate, chargeableDays, calendarDays, days,
                   lastTested, lastDay, active, trip, theDay>>
    /\ given' = IF IsValid(date)
                THEN [args' EXCEPT !.date = SetLeaves(SetLeaves(@, 8), 16)]
                ELSE args'
    /\ UNCHANGED before

\* tomorrow already from 08:00 on
StartDay_FromEight(now) == IF GetHours(now) >= 8 THEN AddDays(now, 1) ELSE now

\* getDefaultStartDate: today, or tomorrow when the hour field is past 8
StartDay(now) == IF GetHours(now) > 8 THEN AddDays(now, 1) ELSE now

\* getDefaultStartDate up to its loop; `now` is what the clock reads
EnterDefault(now, holidays) ==
    IF ~IsArray(holidays)
    THEN Finish(Throw("holidays must be an array")) /\ UNCHANGED theDay
    ELSE /\ theDay' = SetHour(StartDay(now), 9)
         /\ pc' = "default.loop"
         /\ ret' = NoReturn

\* getDefaultStartDate(holidays)
CallGetDefaultStartDate(now, holidays) ==
    /\ pc = "idle"
    /\ op' = "getDefaultStartDate"
    /\ args' = [NoArgs EXCEPT !.now = now, !.holidays = holidays]
    /\ EnterDefault(now, holidays)
    /\ UNCHANGED <<caller, endDate, chargeableDays, calendarDays, days,
                   lastTested, lastDay, active, trip>>
    /\ given' = args'
    /\ UNCHANGED before

\* one iteration of the while loop of getDefaultStartDate
DefaultStep ==
    /\ pc = "default.loop"
    /\ theDay.day <= MaxDay
    /\ LET weekend == IsWeekend(theDay) = TRUE
           holiday == IF weekend THEN Return(FALSE)
                      ELSE IsHoliday(theDay, args.holidays)
       IN  IF holiday.threw
           THEN Finish(holiday) /\ UNCHANGED theDay
           ELSE /\ weekend \/ holiday.value
                /\ theDay' = AddDays(theDay, 1)
                /\ UNCHANGED <<pc, ret>>
    /\ UNCHANGED <<op, args, caller, endDate, chargeableDays, calendarDays, days,
                   lastTested, lastDay, active, trip>>
    /\ UNCHANGED <<given, before>>

\* the loop condition of getDefaultStartDate fails: return day
DefaultExit ==
    /\ pc = "default.loop"
    /\ ~IsWeekend(theDay)
    /\ LET holiday == IsHoliday(theDay, args.holidays)
       IN  ~holiday.threw /\ ~holiday.value
    /\ Finish(Return(theDay))
    /\ UNCHANGED <<op, args, caller, endDate, chargeableDays, calendarDays, days,
                   lastTested, lastDay, active, trip, theDay>>
    /\ UNCHANGED <<given, before>>

\* a JavaScript number given as its floor and the parts of a day above the floor
Number(whole, parts) == [whole |-> whole, parts |-> parts]
Whole(n) == Number(n, 0)

\* the numbers compared after dropping their fractions
LessThan_Truncated(x, y) == x.whole < y.whole

\* x < y
LessThan(x, y) == Parts * x.whole + x.parts < Parts * y.whole + y.parts

\* the chargePeriod argument of the running call
ChargePeriod == Number(args.period, args.parts)

\* the test admitting 0
PeriodTooSmall_Negative(chargePeriod) == LessThan(chargePeriod, Whole(0))

\* chargePeriod < 1
PeriodTooSmall(chargePeriod) == LessThan(chargePeriod, Whole(1))

\* getEndDateByChargePeriod up to its loop
EnterGetEnd(startDate, chargePeriod, holidays) ==
    IF ~IsValid(startDate)
    THEN Finish(Throw("startDate not a valid date object"))
         /\ UNCHANGED <<endDate, chargeableDays>>
    ELSE IF PeriodTooSmall(chargePeriod)
    THEN Finish(Throw("charge period must be a whole number"))
         /\ UNCHANGED <<endDate, chargeableDays>>
    ELSE IF ~IsArray(holidays)
    THEN Finish(Throw("holidays must be an array"))
         /\ UNCHANGED <<endDate, chargeableDays>>
    ELSE /\ endDate' = startDate
         /\ chargeableDays' = 0
         /\ pc' = "getEnd.loop"
         /\ ret' = NoReturn

\* getEndDateByChargePeriod(startDate, chargePeriod, holidays)
CallGetEnd(startDate, chargePeriod, holidays) ==
    /\ pc = "idle"
    /\ op' = "getEndDateByChargePeriod"
    /\ args' = [NoArgs EXCEPT !.date = startDate, !.period = chargePeriod,
                              !.holidays = holidays]
    /\ EnterGetEnd(startDate, Whole(chargePeriod), holidays)
    /\ UNCHANGED <<caller, calendarDays, days, lastTested, lastDay, active, trip, theDay>>
    /\ given' = args'
    /\ UNCHANGED before

\* the walk moving on to the next day after every tested day, the last included
GetEndStep_AlwaysAdvance ==
    /\ pc = "getEnd.loop"
    /\ LessThan(Whole(chargeableDays), ChargePeriod)
    /\ endDate.day <= MaxDay
    /\ LET weekend == IsWeekend(endDate)
           holiday == IF weekend THEN Return(FALSE)
                      ELSE IsHoliday(endDate, args.holidays)
       IN  IF holiday.threw
           THEN Finish(holiday) /\ UNCHANGED <<endDate, chargeableDays>>
           ELSE /\ chargeableDays' = IF ~weekend /\ ~holiday.value
                                     THEN chargeableDays + 1 ELSE chargeableDays
                /\ endDate' = AddDays(endDate, 1)
                /\ UNCHANGED <<pc, ret>>
    /\ UNCHANGED <<op, args, caller, calendarDays, days, lastTested, lastDay,
                   active, trip, theDay>>
    /\ given' = IF endDate = args.date
                THEN [given EXCEPT !.date = AddDaysLeaves(@, 1)] ELSE given
    /\ UNCHANGED before

\* one iteration of the while loop of getEndDateByChargePeriod
GetEndStep ==
    /\ pc = "getEnd.loop"
    /\ LessThan(Whole(chargeableDays), ChargePeriod)
    /\ endDate.day <= MaxDay
    /\ LET weekend == IsWeekend(endDate)
           holiday == IF weekend THEN Return(FALSE)
                      ELSE IsHoliday(endDate, args.holidays)
       IN  IF holiday.threw
           THEN Finish(holiday) /\ UNCHANGED <<endDate, chargeableDays>>
           ELSE LET counted == IF ~weekend /\ ~holiday.value
                               THEN chargeableDays + 1 ELSE chargeableDays
                IN  /\ chargeableDays' = counted
                    /\ endDate' = IF LessThan(Whole(counted), ChargePeriod)
                                  THEN AddDays(endDate, 1) ELSE endDate
                    /\ UNCHANGED <<pc, ret>>
    /\ UNCHANGED <<op, args, caller, calendarDays, days, lastTested, lastDay,
                   active, trip, theDay>>
    /\ given' = IF endDate' # endDate /\ endDate = args.date
                THEN [given EXCEPT !.date = AddDaysLeaves(@, 1)] ELSE given
    /\ UNCHANGED before

\* the start date returned in place of the day the walk reached
GetEndExit_ReturnsStart ==
    /\ pc = "getEnd.loop"
    /\ ~LessThan(Whole(chargeableDays), ChargePeriod)
    /\ Finish(Return(args.date))
    /\ UNCHANGED <<op, args, caller, endDate, chargeableDays, calendarDays, days,
                   lastTested, lastDay, active, trip, theDay>>
    /\ UNCHANGED <<given, before>>

\* the loop condition of getEndDateByChargePeriod fails: return endDate
GetEndExit ==
    /\ pc = "getEnd.loop"
    /\ ~LessThan(Whole(chargeableDays), ChargePeriod)
    /\ Finish(Return(endDate))
    /\ UNCHANGED <<op, args, caller, endDate, chargeableDays, calendarDays, days,
                   lastTested, lastDay, active, trip, theDay>>
    /\ UNCHANGED <<given, before>>

\* the day after `end` reached in place of `end` itself
LastDayOf_EndItself(end) == end

\* const lastDay = addDays(end, 1): the first day the count does not visit
LastDayOf(end) == AddDays(end, 1)

\* the counters going on from where the call before left them
EnterCount_KeepsCounters(start, end, holidays, who) ==
    /\ caller' = who
    /\ IF start.kind = "null" \/ ~IsValid(start) \/ end.kind = "null" \/ ~IsValid(end)
       THEN Finish(Throw("start and end must be valid date objects"))
            /\ UNCHANGED <<calendarDays, days, lastTested, lastDay>>
       ELSE IF ~IsArray(holidays)
       THEN Finish(Throw("holidays must be an array"))
            /\ UNCHANGED <<calendarDays, days, lastTested, lastDay>>
       ELSE /\ UNCHANGED <<calendarDays, days>>
            /\ lastTested' = start
            /\ lastDay' = LastDayOf(end)
            /\ pc' = "count.loop"
            /\ ret' = NoReturn

\* countCfsBusinessDays up to its loop, entered by `who`
EnterCount(start, end, holidays, who) ==
    /\ caller' = who
    /\ IF start.kind = "null" \/ ~IsValid(start) \/ end.kind = "null" \/ ~IsValid(end)
       THEN Finish(Throw("start and end must be valid date objects"))
            /\ UNCHANGED <<calendarDays, days, lastTested, lastDay>>
       ELSE IF ~IsArray(holidays)
       THEN Finish(Throw("holidays must be an array"))
            /\ UNCHANGED <<calendarDays, days, lastTested, lastDay>>
       ELSE /\ calendarDays' = 0
            /\ days' = 0
            /\ lastTested' = start
            /\ lastDay' = LastDayOf(end)
            /\ pc' = "count.loop"
            /\ ret' = NoReturn

\* the caller's objects once countCfsBusinessDays has taken addDays(end, 1)
CountGiven(a) ==
    IF IsValid(a.date) /\ IsValid(a.end) /\ IsArray(a.holidays)
    THEN [a EXCEPT !.end = AddDaysLeaves(@, 1)] ELSE a

\* countCfsBusinessDays(start, end, holidays)
CallCount(start, end, holidays) ==
    /\ pc = "idle"
    /\ op' = "countCfsBusinessDays"
    /\ args' = [NoArgs EXCEPT !.date = start, !.end = end, !.holidays = holidays]
    /\ EnterCount(start, end, holidays, "top")
    /\ UNCHANGED <<endDate, chargeableDays, active, trip, theDay>>
    /\ given' = CountGiven(args')
    /\ UNCHANGED before

\* one iteration of the while loop of countCfsBusinessDays
CountStep ==
    /\ pc = "count.loop"
    /\ IsSameDay(lastDay, lastTested) = FALSE
    /\ lastTested.day <= MaxDay
    /\ LET weekend == IsWeekend(lastTested)
           holiday == IF weekend THEN Return(FALSE)
                      ELSE IsHoliday(lastTested, args.holidays)
       IN  IF holiday.threw
           THEN Finish(holiday) /\ UNCHANGED <<calendarDays, days, lastTested>>
           ELSE /\ calendarDays' = calendarDays + 1
                /\ days' = IF weekend = FALSE /\ holiday.value = FALSE
                           THEN days + 1 ELSE days
                /\ lastTested' = AddDays(lastTested, 1)
                /\ UNCHANGED <<pc, ret>>
    /\ UNCHANGED <<op, args, caller, endDate, chargeableDays, lastDay, active, trip, theDay>>
    /\ given' = IF lastTested' # lastTested /\ caller = "top" /\ calendarDays = 0
                THEN [given EXCEPT !.date = AddDaysLeaves(@, 1)] ELSE given
    /\ UNCHANGED before

\* charge_end falling back to delivery_start
ResolveCharge_EndFromDelivery(act) ==
    LET dates == args.dates
        chargeStart == IF Truthy(dates.charge_start) THEN dates.charge_start
                       ELSE dates.delivery_start
        chargeEnd   == IF Truthy(dates.charge_end) THEN dates.charge_end
                       ELSE dates.delivery_start
    IN  /\ active' = act
        /\ IF chargeStart = dates.delivery_start /\ chargeEnd = dates.collection_start
           THEN /\ Finish(Return(DurationRecord(act, act)))
                /\ UNCHANGED <<caller, calendarDays, days, lastTested, lastDay>>
           ELSE EnterCount(ParseISO(chargeStart), ParseISO(chargeEnd),
                           args.holidays, "duration.charge")

\* the charge bounds used only when both are supplied
ResolveCharge_BothOrNothing(act) ==
    LET dates == args.dates
        both == Truthy(dates.charge_start) /\ Truthy(dates.charge_end)
        chargeStart == IF both THEN dates.charge_start ELSE dates.delivery_start
        chargeEnd   == IF both THEN dates.charge_end ELSE dates.collection_start
    IN  /\ active' = act
        /\ IF chargeStart = dates.delivery_start /\ chargeEnd = dates.collection_start
           THEN /\ Finish(Return(DurationRecord(act, act)))
                /\ UNCHANGED <<caller, calendarDays, days, lastTested, lastDay>>
           ELSE EnterCount(ParseISO(chargeStart), ParseISO(chargeEnd),
                           args.holidays, "duration.charge")

\* getDuration from `const chargeStart` on, with the active count at hand
ResolveCharge(act) ==
    LET dates == args.dates
        chargeStart == IF Truthy(dates.charge_start) THEN dates.charge_start
                       ELSE dates.delivery_start
        chargeEnd   == IF Truthy(dates.charge_end) THEN dates.charge_end
                       ELSE dates.collection_start
    IN  /\ active' = act
        /\ IF chargeStart = dates.delivery_start /\ chargeEnd = dates.collection_start
           THEN /\ Finish(Return(DurationRecord(act, act)))
                /\ UNCHANGED <<caller, calendarDays, days, lastTested, lastDay>>
           ELSE EnterCount(ParseISO(chargeStart), ParseISO(chargeEnd),
                           args.holidays, "duration.charge")

\* the loop condition of countCfsBusinessDays fails: build the result and return
\* it to whoever entered the count
CountExit ==
    /\ pc = "count.loop"
    /\ ~(IsSameDay(lastDay, lastTested) = FALSE)
    /\ LET result == CountResult(calendarDays, days)
       IN  CASE caller = "top" ->
                    /\ Finish(Return(result))
                    /\ UNCHANGED <<caller, calendarDays, days, lastTested, lastDay, active>>
             [] caller = "duration.active" ->
                    ResolveCharge(result)
             [] caller = "duration.charge" ->
                    /\ Finish(Return(DurationRecord(active, result)))
                    /\ UNCHANGED <<caller, calendarDays, days, lastTested, lastDay, active>>
    /\ UNCHANGED <<op, args, endDate, chargeableDays, trip, theDay>>
    /\ UNCHANGED <<given, before>>

\* holidays checked ahead of the required strings
EnterDuration_HolidaysFirst(dates, holidays) ==
    IF dates.type # "object"
    THEN Finish(Throw("dates must be a non-null object"))
         /\ UNCHANGED <<caller, calendarDays, days, lastTested, lastDay>>
    ELSE IF ~IsArray(holidays)
    THEN Finish(Throw("holidays must be an array"))
         /\ UNCHANGED <<caller, calendarDays, days, lastTested, lastDay>>
    ELSE IF ~Truthy(dates.delivery_start) \/ ~Truthy(dates.collection_start)
    THEN Finish(Throw("dates.delivery_start and dates.collection_start are required"))
         /\ UNCHANGED <<caller, calendarDays, days, lastTested, lastDay>>
    ELSE LET deliveryStart == ParseISO(dates.delivery_start)
             collectionStart == ParseISO(dates.collection_start)
         IN  IF ~IsValid(deliveryStart) \/ ~IsValid(collectionStart)
             THEN Finish(Throw("delivery_start or collection_start is not a valid date string"))
                  /\ UNCHANGED <<caller, calendarDays, days, lastTested, lastDay>>
             ELSE EnterCount(deliveryStart, collectionStart, holidays, "duration.active")

\* getDuration up to the active count
EnterDuration(dates, holidays) ==
    IF dates.type # "object"
    THEN Finish(Throw("dates must be a non-null object"))
         /\ UNCHANGED <<caller, calendarDays, days, lastTested, lastDay>>
    ELSE IF ~Truthy(dates.delivery_start) \/ ~Truthy(dates.collection_start)
    THEN Finish(Throw("dates.delivery_start and dates.collection_start are required"))
         /\ UNCHANGED <<caller, calendarDays, days, lastTested, lastDay>>
    ELSE IF ~IsArray(holidays)
    THEN Finish(Throw("holidays must be an array"))
         /\ UNCHANGED <<caller, calendarDays, days, lastTested, lastDay>>
    ELSE LET deliveryStart == ParseISO(dates.delivery_start)
             collectionStart == ParseISO(dates.collection_start)
         IN  IF ~IsValid(deliveryStart) \/ ~IsValid(collectionStart)
             THEN Finish(Throw("delivery_start or collection_start is not a valid date string"))
                  /\ UNCHANGED <<caller, calendarDays, days, lastTested, lastDay>>
             ELSE EnterCount(deliveryStart, collectionStart, holidays, "duration.active")

\* getDuration(dates, holidays)
CallGetDuration(dates, holidays) ==
    /\ pc = "idle"
    /\ op' = "getDuration"
    /\ args' = [NoArgs EXCEPT !.dates = dates, !.holidays = holidays]
    /\ EnterDuration(dates, holidays)
    /\ UNCHANGED <<endDate, chargeableDays, active, trip, theDay>>
    /\ given' = args'
    /\ UNCHANGED before

\* the test "round-trips with countCfsBusinessDays": count from the start date to
\* the end date getEndDateByChargePeriod returned, with the same holidays
RoundTripCount ==
    /\ pc = "done"
    /\ op = "getEndDateByChargePeriod"
    /\ ~ret.threw
    /\ op' = "countCfsBusinessDays"
    /\ args' = [args EXCEPT !.end = ret.value]
    /\ trip' = args.period
    /\ EnterCount(args.date, ret.value, args.holidays, "top")
    /\ UNCHANGED <<endDate, chargeableDays, active, theDay>>
    /\ given' = CountGiven(args')
    /\ before' = <<>>

\* the test "round-trips with getEndDateByChargePeriod": getDuration over the ISO
\* strings of the start date and of the returned end date
RoundTripDuration ==
    /\ pc = "done"
    /\ op = "getEndDateByChargePeriod"
    /\ ~ret.threw
    /\ LET dates == DatesObject(ToISOString(args.date), ToISOString(ret.value),
                                Undefined, Undefined)
       IN  /\ op' = "getDuration"
           /\ args' = [args EXCEPT !.end = ret.value, !.dates = dates]
           /\ trip' = args.period
           /\ EnterDuration(dates, args.holidays)
    /\ UNCHANGED <<endDate, chargeableDays, active, theDay>>
    /\ given' = args'
    /\ before' = <<>>

\* the caller makes the call it has just made once more, with the same objects
\* for arguments; the locals of the first call still hold their last values
Repeat ==
    /\ pc = "done"
    /\ before = <<>>
    /\ before' = <<ret>>
    /\ CASE op = "isHoliday" ->
               /\ Finish(IsHoliday(given.date, given.holidays))
               /\ given' = given
               /\ UNCHANGED <<caller, endDate, chargeableDays, calendarDays, days,
                              lastTested, lastDay, theDay>>
         [] op = "isOffHours" ->
               /\ Finish(IsOffHours(given.date))
               /\ given' = IF IsValid(given.date)
                           THEN [given EXCEPT !.date = SetLeaves(SetLeaves(@, 8), 16)]
                           ELSE given
               /\ UNCHANGED <<caller, endDate, chargeableDays, calendarDays, days,
                              lastTested, lastDay, theDay>>
         [] op = "getDefaultStartDate" ->
               /\ EnterDefault(given.now, given.holidays)
               /\ given' = given
               /\ UNCHANGED <<caller, endDate, chargeableDays, calendarDays, days,
                              lastTested, lastDay>>
         [] op = "getEndDateByChargePeriod" ->
               /\ EnterGetEnd(given.date, Number(given.period, given.parts), given.holidays)
               /\ given' = given
               /\ UNCHANGED <<caller, calendarDays, days, lastTested, lastDay, theDay>>
         [] op = "countCfsBusinessDays" ->
               /\ EnterCount(given.date, given.end, given.holidays, "top")
               /\ given' = CountGiven(given)
               /\ UNCHANGED <<endDate, chargeableDays, theDay>>
         [] op = "getDuration" ->
               /\ EnterDuration(given.dates, given.holidays)
               /\ given' = given
               /\ UNCHANGED <<endDate, chargeableDays, theDay>>
    /\ UNCHANGED <<op, args, active, trip>>

\* the end date asked for once more from the same start date, for a longer charge
\* period
LongerPeriod ==
    /\ pc = "done"
    /\ op = "getEndDateByChargePeriod"
    /\ ~ret.threw
    /\ before = <<>>
    /\ \E p \in (args.period + 1)..MaxPeriod :
           /\ args' = [args EXCEPT !.period = p]
           /\ EnterGetEnd(given.date, Whole(p), given.holidays)
    /\ given' = args'
    /\ before' = <<ret, args>>
    /\ UNCHANGED <<op, caller, calendarDays, days, lastTested, lastDay, active, trip, theDay>>

\* the end date asked for once more after one more holiday was added to the list
MoreHolidays ==
    /\ pc = "done"
    /\ op = "getEndDateByChargePeriod"
    /\ ~ret.threw
    /\ before = <<>>
    /\ Len(args.holidays.items) < MaxHolidays
    /\ \E h \in HolidayStrings :
           LET holidays == Array(Append(given.holidays.items, h))
           IN  /\ args' = [args EXCEPT !.holidays = holidays]
               /\ EnterGetEnd(given.date, Number(given.period, given.parts), holidays)
    /\ given' = args'
    /\ before' = <<ret, args>>
    /\ UNCHANGED <<op, caller, calendarDays, days, lastTested, lastDay, active, trip, theDay>>

\* the caller takes the result; nothing of the call is kept
Forget ==
    /\ pc = "done"
    /\ pc' = "idle"
    /\ op' = "none"
    /\ args' = NoArgs
    /\ caller' = "top"
    /\ endDate' = Null
    /\ chargeableDays' = 0
    /\ calendarDays' = 0
    /\ days' = 0
    /\ lastTested' = Null
    /\ lastDay' = Null
    /\ active' = NoValue
    /\ theDay' = Null
    /\ ret' = NoReturn
    /\ trip' = 0
    /\ given' = NoArgs
    /\ before' = <<>>

\* a call starts only when no call is running: the library is synchronous
Next ==
    \/ /\ pc = "idle"
       /\ \E d \in TestDates \cup BadDates, h \in HolidayArgs : CallIsHoliday(d, h)
    \/ /\ pc = "idle"
       /\ \E d \in ClockDates \cup BadDates : CallIsOffHours(d)
    \/ /\ pc = "idle"
       /\ \E d \in Dates \cup BadDates, p \in Periods, h \in HolidayArgs :
              CallGetEnd(d, p, h)
    \/ /\ pc = "idle"
       /\ \E now \in Nows, h \in HolidayArgs : CallGetDefaultStartDate(now, h)
    \/ DefaultStep
    \/ DefaultExit
    \/ GetEndStep
    \/ GetEndExit
    \/ /\ pc = "idle"
       /\ \E s \in Dates \cup BadDates, e \in Dates \cup BadDates, h \in HolidayArgs :
              CallCount(s, e, h)
    \/ CountStep
    \/ CountExit
    \/ /\ pc = "idle"
       /\ \E dates \in DatesArgs, h \in HolidayArgs : CallGetDuration(dates, h)
    \/ RoundTripCount
    \/ RoundTripDuration
    \/ Repeat
    \/ LongerPeriod
    \/ MoreHolidays
    \/ Forget

Spec == Init /\ [][Next]_vars

-----------------------------------------------------------------------------
(* The walk for a charge period that is no integer *)

\* getEndDateByChargePeriod(startDate, whole + parts/Parts, holidays)
CallGetEndFraction(startDate, whole, parts, holidays) ==
    /\ pc = "idle"
    /\ op' = "getEndDateByChargePeriod"
    /\ args' = [NoArgs EXCEPT !.date = startDate, !.period = whole, !.parts = parts,
                              !.holidays = holidays]
    /\ EnterGetEnd(startDate, Number(whole, parts), holidays)
    /\ UNCHANGED <<caller, calendarDays, days, lastTested, lastDay, active, trip, theDay>>
    /\ given' = args'
    /\ UNCHANGED before

\* the end date asked for once more, for the next integer above the charge period
RoundedUp ==
    /\ pc = "done"
    /\ op = "getEndDateByChargePeriod"
    /\ args.parts > 0
    /\ before = <<>>
    /\ args' = [args EXCEPT !.period = @ + 1, !.parts = 0]
    /\ EnterGetEnd(given.date, Whole(given.period + 1), given.holidays)
    /\ given' = args'
    /\ before' = <<ret, args>>
    /\ UNCHANGED <<op, caller, calendarDays, days, lastTested, lastDay, active, trip, theDay>>

FractionNext ==
    \/ /\ pc = "idle"
       /\ \E d \in Dates, w \in 0..MaxPeriod, k \in 1..(Parts - 1), h \in HolidayLists :
              CallGetEndFraction(d, w, k, h)
    \/ GetEndStep
    \/ GetEndExit
    \/ RoundedUp
    \/ Forget

FractionSpec == Init /\ [][FractionNext]_vars

-----------------------------------------------------------------------------
(* The count over a window and over a window inside it *)

\* the count asked for once more, for a window inside the one just counted
InnerWindow ==
    /\ pc = "done"
    /\ op = "countCfsBusinessDays"
    /\ ~ret.threw
    /\ before = <<>>
    /\ \E s \in Dates, e \in Dates :
           /\ args.date.day <= s.day /\ s.day <= e.day /\ e.day <= args.end.day
           /\ args' = [args EXCEPT !.date = s, !.end = e]
           /\ EnterCount(s, e, given.holidays, "top")
    /\ given' = CountGiven(args')
    /\ before' = <<ret, args>>
    /\ UNCHANGED <<op, endDate, chargeableDays, active, trip, theDay>>

\* windows of getDuration that parse
WindowArgs ==
    {DatesObject(ds, cs, chs, che) :
        ds \in WindowStrings, cs \in WindowStrings,
        chs \in ChargeStrings \ {GarbageString}, che \in ChargeStrings \ {GarbageString}}

WindowNext ==
    \/ /\ pc = "idle"
       /\ \E s \in Dates, e \in Dates, h \in HolidayLists : CallCount(s, e, h)
    \/ /\ pc = "idle"
       /\ \E dates \in WindowArgs, h \in HolidayLists : CallGetDuration(dates, h)
    \/ CountStep
    \/ CountExit
    \/ InnerWindow
    \/ Forget

WindowSpec == Init /\ [][WindowNext]_vars

-----------------------------------------------------------------------------
(* The walk and the count over dates of any zone *)

\* plain dates of the system zone: at 02:00 UTC it is still the evening before in
\* Chicago, at 14:00 UTC both zones are on the same civil day
PlainDates == {PlainDate(d, t) : d \in 1..LastDay, t \in {2 * HourMs, 14 * HourMs}}

ZoneDates == Dates \cup PlainDates

ZoneNext ==
    \/ /\ pc = "idle"
       /\ \E d \in ZoneDates, p \in 1..MaxPeriod, h \in HolidayLists : CallGetEnd(d, p, h)
    \/ GetEndStep
    \/ GetEndExit
    \/ /\ pc = "idle"
       /\ \E s \in ZoneDates, e \in ZoneDates, h \in HolidayLists : CallCount(s, e, h)
    \/ CountStep
    \/ CountExit
    \/ Forget

ZoneSpec == Init /\ [][ZoneNext]_vars

-----------------------------------------------------------------------------
(* What the claims speak of: civil days of America/Chicago, computed from the *)
(* instant rather than by carrying wall-clock fields                          *)

\* milliseconds from the model's day 0, 00:00 UTC, of wall-clock fields at an offset
InstantMs(day, ms, off) == day * DayMs + ms - off

ChicagoDayOfInstant(t) == (t + Offset(Chicago)) \div DayMs

ChicagoDayOfDate(d) == ChicagoDayOfInstant(InstantMs(d.day, d.ms, Offset(d.zone)))

ChicagoDayOfString(s) ==
    IF s.form = "offset" THEN ChicagoDayOfInstant(InstantMs(s.day, s.ms, s.off))
    ELSE s.day

\* the civil days the entries of a holiday list fall on
HolidayDays(holidays) ==
    {ChicagoDayOfString(holidays.items[i]) : i \in 1..Len(holidays.items)}

\* day 0 is a Monday
WeekendDay(day) == day % 7 = 5 \/ day % 7 = 6

Chargeable(day, holidays) == ~WeekendDay(day) /\ day \notin HolidayDays(holidays)

\* number of chargeable days among the civil days from..to
ChargeableIn(from, to, holidays) ==
    Cardinality({d \in from..to : Chargeable(d, holidays)})

ValidCountArgs ==
    /\ IsValid(args.date)
    /\ IsValid(args.end)
    /\ IsArray(args.holidays)

CountReturned ==
    /\ pc = "done"
    /\ op = "countCfsBusinessDays"
    /\ ~ret.threw

GetEndReturned ==
    /\ pc = "done"
    /\ op = "getEndDateByChargePeriod"
    /\ ~ret.threw

DurationReturned ==
    /\ pc = "done"
    /\ op = "getDuration"
    /\ ~ret.threw

-----------------------------------------------------------------------------
(* Claims *)

\* C1: counting the business days from a start date to the end date that
\* getEndDateByChargePeriod gave for charge period p, with the same holidays,
\* gives days = p; getDuration over the same two dates gives activeDays = p.
C1_RoundTrip ==
    (pc = "done" /\ trip >= 1) =>
        /\ ~ret.threw
        /\ op = "countCfsBusinessDays" => ret.value.days = trip
        /\ op = "getDuration" => ret.value.activeDays = trip

\* a Saturday or Sunday start, and a weekday holiday between start and end
C1_Witness ==
    /\ DurationReturned
    /\ trip >= 2
    /\ IsWeekend(args.date)
    /\ \E d \in HolidayDays(args.holidays) :
           args.date.day < d /\ d < args.end.day /\ ~WeekendDay(d)
    /\ ret.value.activeDays = trip

C3_CalendarDays ==
    (pc = "done" /\ op = "countCfsBusinessDays" /\ ValidCountArgs
        /\ ChicagoDayOfDate(args.end) >= ChicagoDayOfDate(args.date)) =>
        /\ ~ret.threw
        /\ ret.value.calendarDays =
               ChicagoDayOfDate(args.end) - ChicagoDayOfDate(args.date) + 1

C3_Witness ==
    /\ CountReturned
    /\ args.end.day = args.date.day
    /\ args.end.ms < args.date.ms
    /\ ret.value.calendarDays = 1

\* C4: days is the number of civil days of [start-day, end-day] that are neither
\* a weekend day nor a holiday: calendarDays less the distinct days of the range
\* that are weekend or holiday.
C4_BusinessDays ==
    (pc = "done" /\ op = "countCfsBusinessDays" /\ ValidCountArgs
        /\ ChicagoDayOfDate(args.end) >= ChicagoDayOfDate(args.date)) =>
        LET s == ChicagoDayOfDate(args.date)
            e == ChicagoDayOfDate(args.end)
            h == args.holidays
            off == {d \in s..e : WeekendDay(d) \/ d \in HolidayDays(h)}
        IN  /\ ~ret.threw
            /\ ret.value.days = ChargeableIn(s, e, h)
            /\ ret.value.days = ret.value.calendarDays - Cardinality(off)

\* a holiday listed twice, and a holiday on a Saturday, inside the range
C4_Witness ==
    /\ CountReturned
    /\ Len(args.holidays.items) = 2
    /\ args.holidays.items[1] # args.holidays.items[2]
    /\ \/ HolidayDays(args.holidays) = {3}
       \/ 5 \in HolidayDays(args.holidays)
    /\ args.date.day <= 3
    /\ args.end.day >= 5
    /\ ret.value.days < ret.value.calendarDays - 1

\* C5: with end's civil day before start's civil day the counting loop makes no
\* iteration and the call returns calendarDays = 0 and days = 0.
C5_NoIterationBeforeStart ==
    (op = "countCfsBusinessDays" /\ ValidCountArgs
        /\ ChicagoDayOfDate(args.end) < ChicagoDayOfDate(args.date)) =>
        /\ calendarDays = 0
        /\ days = 0
        /\ pc = "done" =>
               /\ ~ret.threw
               /\ ret.value.calendarDays = 0
               /\ ret.value.days = 0

\* C6: the label is fixed by days: "" for 0, "day" for 1, "days" for 2..4,
\* "week" for 5, "weeks" above 5.
C6_Label ==
    CountReturned =>
        ret.value.label =
            CASE ret.value.days = 0 -> ""
              [] ret.value.days = 1 -> "day"
              [] ret.value.days \in 2..4 -> "days"
              [] ret.value.days = 5 -> "week"
              [] OTHER -> "weeks"

C6_Witness ==
    /\ CountReturned
    /\ ret.value.days = 5
    /\ ret.value.label = "week"

\* the text of n / 5, from its tenths
FifthsText(n) ==
    LET tenths == 2 * n
    IN  IF tenths % 10 = 0 THEN ToString(tenths \div 10)
        ELSE ToString(tenths \div 10) \o "." \o ToString(tenths % 10)

\* C7: with days >= 1, periodLabel is "<number> <label>": the number is days
\* under "day"/"days" and days / 5, fraction included, under "week"/"weeks".
C7_PeriodLabel ==
    (CountReturned /\ ret.value.days >= 1) =>
        LET r == ret.value
            number == IF r.label \in {"day", "days"} THEN ToString(r.days)
                      ELSE FifthsText(r.days)
        IN  r.periodLabel = number \o " " \o r.label

C7_Witness ==
    /\ CountReturned
    /\ ret.value.days = 6
    /\ ret.value.periodLabel = "1.2 weeks"

\* C8: activeLabel and chargeLabel of getDuration are each one of "day", "days",
\* "week", "weeks".
C8_LabelsOfFour ==
    DurationReturned =>
        /\ ret.value.activeLabel \in {"day", "days", "week", "weeks"}
        /\ ret.value.chargeLabel \in {"day", "days", "week", "weeks"}

\* a quotient times a whole number equals a whole number
TimesEquals(q, k, n) == q.num * k = n * q.den

\* C9: weeks * 5 = days and calendarWeeks * 5 = calendarDays, unrounded, in every
\* count; activeWeeks * 5 = activeDays and chargeWeeks * 5 = chargeDays in every
\* duration.
C9_WeeksExact ==
    /\ CountReturned =>
           /\ TimesEquals(ret.value.weeks, 5, ret.value.days)
           /\ TimesEquals(ret.value.calendarWeeks, 5, ret.value.calendarDays)
    /\ DurationReturned =>
           /\ TimesEquals(ret.value.activeWeeks, 5, ret.value.activeDays)
           /\ TimesEquals(ret.value.chargeWeeks, 5, ret.value.chargeDays)

C9_Witness ==
    /\ DurationReturned
    /\ ret.value.activeDays = 6
    /\ ret.value.chargeDays % 5 # 0
    /\ ret.value.chargeDays # ret.value.activeDays

Reverse(items) == [i \in 1..Len(items) |-> items[Len(items) + 1 - i]]

\* C10: isHoliday is true iff an entry of the list falls on the candidate's
\* America/Chicago civil day: the candidate's time of day, the order of the list
\* and repeated entries do not matter, an empty list gives false, and adding the
\* candidate's civil day to the list gives true.
C10_IsHoliday ==
    (pc = "done" /\ op = "isHoliday" /\ IsValid(args.date) /\ IsArray(args.holidays)) =>
        LET d == args.date
            items == args.holidays.items
            day == ChicagoDayOfDate(d)
        IN  /\ ~ret.threw
            /\ ret.value = (day \in HolidayDays(args.holidays))
            /\ items = <<>> => ret.value = FALSE
            /\ IsHoliday(d, Array(Reverse(items))).value = ret.value
            /\ IsHoliday(d, Array(items \o items)).value = ret.value
            /\ IsHoliday(d, Array(Append(items, DateString(day)))).value = TRUE
            /\ IsHoliday(d, Array(<<DateString(day)>> \o items)).value = TRUE

\* a plain date of Friday 02:00 UTC is Thursday evening in Chicago, a holiday
C10_Witness ==
    /\ pc = "done"
    /\ op = "isHoliday"
    /\ IsValid(args.date)
    /\ args.date.zone = SystemZone
    /\ IsArray(args.holidays)
    /\ args.date.day \notin HolidayDays(args.holidays)
    /\ ret.value = TRUE

\* milliseconds since midnight on the America/Chicago wall clock
ChicagoTimeOfDate(d) ==
    (InstantMs(d.day, d.ms, Offset(d.zone)) + Offset(Chicago)) % DayMs

\* C11: isOffHours is true iff the America/Chicago wall-clock time is strictly
\* before 08:00:00.000 or strictly after 16:00:00.000; the two boundaries give
\* false, one millisecond outside them gives true.
C11_OffHours ==
    (pc = "done" /\ op = "isOffHours" /\ IsValid(args.date)) =>
        LET t == ChicagoTimeOfDate(args.date)
        IN  /\ ~ret.threw
            /\ ret.value = (t < 8 * HourMs \/ t > 16 * HourMs)
            /\ t \in {8 * HourMs, 16 * HourMs} => ret.value = FALSE
            /\ t \in {8 * HourMs - 1, 16 * HourMs + 1} => ret.value = TRUE

\* a plain date at 12:59:59.999 UTC: one millisecond before 08:00 in Chicago
C11_Witness ==
    /\ pc = "done"
    /\ op = "isOffHours"
    /\ IsValid(args.date)
    /\ args.date.zone = SystemZone
    /\ ChicagoTimeOfDate(args.date) = 8 * HourMs - 1
    /\ ret.value = TRUE

DefaultReturned ==
    /\ pc = "done"
    /\ op = "getDefaultStartDate"
    /\ ~ret.threw

\* the base day of a clock reading: the next civil day from 09:00:00.000 on
BaseDayOf(now) ==
    IF ChicagoTimeOfDate(now) >= 9 * HourMs THEN ChicagoDayOfDate(now) + 1
    ELSE ChicagoDayOfDate(now)

C13_TomorrowAfterEight ==
    (DefaultReturned /\ ChicagoTimeOfDate(args.now) > 8 * HourMs) =>
        ChicagoDayOfDate(ret.value) > ChicagoDayOfDate(args.now)

\* C14: getDefaultStartDate returns 09:00:00.000 America/Chicago on the earliest
\* civil day from the base day on that is neither a weekend day nor a holiday.
C14_NextWorkingDay ==
    DefaultReturned =>
        LET b == BaseDayOf(args.now)
            e == ChicagoDayOfDate(ret.value)
        IN  /\ ret.value.zone = Chicago
            /\ ChicagoTimeOfDate(ret.value) = 9 * HourMs
            /\ e >= b
            /\ Chargeable(e, args.holidays)
            /\ \A d \in b..(e - 1) : ~Chargeable(d, args.holidays)

\* a weekend and the Monday holiday after it skipped
C14_Witness ==
    /\ DefaultReturned
    /\ ChicagoDayOfDate(ret.value) - BaseDayOf(args.now) >= 3
    /\ ~WeekendDay(ChicagoDayOfDate(ret.value) - 1)

\* a string that is absent or empty
Blank(s) == s = EmptyString \/ s = Undefined

\* the charge bounds getDuration is to use
ChargeStartOf(dates) ==
    IF Blank(dates.charge_start) THEN dates.delivery_start ELSE dates.charge_start
ChargeEndOf(dates) ==
    IF Blank(dates.charge_end) THEN dates.collection_start ELSE dates.charge_end

\* a string that parses to a date
Parses(s) == s.form \in {"date", "local", "offset"}

\* business days between the civil days of two ISO strings
DaysBetween(from, to, holidays) ==
    ChargeableIn(ChicagoDayOfString(from), ChicagoDayOfString(to), holidays)

\* C15: charge_start falls back to delivery_start and charge_end to
\* collection_start, each on its own, when absent or empty; when the resolved
\* charge strings are the same text as delivery_start and collection_start, the
\* four charge fields equal the four active fields.
C15_ChargeFallback ==
    DurationReturned =>
        LET dates == args.dates
            r == ret.value
        IN  /\ Blank(dates.charge_start) =>
                   r.chargeDays =
                       DaysBetween(dates.delivery_start, ChargeEndOf(dates), args.holidays)
            /\ Blank(dates.charge_end) =>
                   r.chargeDays =
                       DaysBetween(ChargeStartOf(dates), dates.collection_start, args.holidays)
            /\ (ChargeStartOf(dates) = dates.delivery_start
                    /\ ChargeEndOf(dates) = dates.collection_start) =>
                   /\ r.chargeDays = r.activeDays
                   /\ r.chargeWeeks = r.activeWeeks
                   /\ r.chargeLabel = r.activeLabel
                   /\ r.chargePeriodLabel = r.activePeriodLabel

\* charge_start given as the text of delivery_start, charge_end empty
C15_Witness ==
    /\ DurationReturned
    /\ args.dates.charge_start = args.dates.delivery_start
    /\ args.dates.charge_end = EmptyString
    /\ args.dates.delivery_start # args.dates.collection_start
    /\ ret.value.activeDays >= 2
    /\ ret.value.chargeDays = ret.value.activeDays

\* what a count of d business days reports
ReportOf(d) ==
    [days |-> d,
     weeks |-> [num |-> d, den |-> 5],
     label |-> CASE d = 0 -> "" [] d = 1 -> "day" [] d \in 2..4 -> "days"
                 [] d = 5 -> "week" [] OTHER -> "weeks",
     periodLabel |-> CASE d = 0 -> ""
                       [] d \in 1..4 -> ToString(d) \o (IF d = 1 THEN " day" ELSE " days")
                       [] d = 5 -> "1 week"
                       [] OTHER -> FifthsText(d) \o " weeks"]

\* C16: the active fields of getDuration are those of a count over delivery_start
\* and collection_start, the charge fields those of a count over the resolved
\* charge bounds with the same holidays; with one charge bound supplied, the
\* window is that bound and the fallback of the other.
C16_DurationIsTwoCounts ==
    DurationReturned =>
        LET dates == args.dates
            r == ret.value
            a == ReportOf(DaysBetween(dates.delivery_start, dates.collection_start,
                                      args.holidays))
            c == ReportOf(DaysBetween(ChargeStartOf(dates), ChargeEndOf(dates),
                                      args.holidays))
        IN  r = [activeDays |-> a.days, activeWeeks |-> a.weeks,
                 activeLabel |-> a.label, activePeriodLabel |-> a.periodLabel,
                 chargeDays |-> c.days, chargeWeeks |-> c.weeks,
                 chargeLabel |-> c.label, chargePeriodLabel |-> c.periodLabel]

\* only charge_end supplied: the charge window runs from delivery_start to it
C16_Witness ==
    /\ DurationReturned
    /\ args.dates.charge_start = Undefined
    /\ Parses(args.dates.charge_end)
    /\ args.dates.charge_end # args.dates.collection_start
    /\ ret.value.chargeDays >= 1
    /\ ret.value.chargeDays < ret.value.activeDays

\* the calls whose other arguments are valid
OthersValid ==
    \/ op = "isHoliday" /\ IsValid(args.date)
    \/ op = "getDefaultStartDate"
    \/ op = "getEndDateByChargePeriod" /\ IsValid(args.date) /\ args.period >= 1
    \/ op = "countCfsBusinessDays" /\ IsValid(args.date) /\ IsValid(args.end)
    \/ op = "getDuration" /\ args.dates.type = "object"
           /\ ~Blank(args.dates.delivery_start) /\ ~Blank(args.dates.collection_start)

\* C17: isHoliday, getDefaultStartDate, getEndDateByChargePeriod,
\* countCfsBusinessDays and getDuration, given valid other arguments and holidays
\* that are no array (null, a string, a plain object), end at once with the error
\* "holidays must be an array" and no result.
C17_HolidaysMustBeArray ==
    (pc # "idle" /\ OthersValid /\ args.holidays.type # "array") =>
        /\ pc = "done"
        /\ ret = Throw("holidays must be an array")
        /\ ret.value = NoValue

\* countCfsBusinessDays over two valid dates and a string for holidays
C17_Witness ==
    /\ pc = "done"
    /\ op = "countCfsBusinessDays"
    /\ IsValid(args.date) /\ IsValid(args.end)
    /\ args.holidays.type = "string"
    /\ ret.threw

\* the errors naming an invalid date
InvalidDateErrors ==
    {"testDate must be a valid date object", "date must be a valid date object",
     "startDate not a valid date object", "start and end must be valid date objects",
     "delivery_start or collection_start is not a valid date string"}

\* a supplied string that does not parse
Unparseable(s) == ~Blank(s) /\ ~Parses(s)

\* C18: isHoliday, isOffHours, getEndDateByChargePeriod and countCfsBusinessDays
\* end at once with an invalid-date error when a date argument is null or an
\* invalid date; getDuration ends with an invalid-date error when delivery_start,
\* collection_start or a supplied charge bound is a non-empty string that does
\* not parse.
C18_InvalidDate ==
    /\ (pc # "idle" /\ op = "isHoliday" /\ args.date.kind # "date") =>
           pc = "done" /\ ret = Throw("testDate must be a valid date object")
    /\ (pc # "idle" /\ op = "isOffHours" /\ args.date.kind # "date") =>
           pc = "done" /\ ret = Throw("date must be a valid date object")
    /\ (pc # "idle" /\ op = "getEndDateByChargePeriod" /\ args.date.kind # "date") =>
           pc = "done" /\ ret = Throw("startDate not a valid date object")
    /\ (pc # "idle" /\ op = "countCfsBusinessDays"
            /\ (args.date.kind # "date" \/ args.end.kind # "date")) =>
           pc = "done" /\ ret = Throw("start and end must be valid date objects")
    /\ (pc # "idle" /\ op = "getDuration" /\ args.dates.type = "object"
            /\ ~Blank(args.dates.delivery_start) /\ ~Blank(args.dates.collection_start)
            /\ IsArray(args.holidays)
            /\ (Unparseable(args.dates.delivery_start)
                    \/ Unparseable(args.dates.collection_start))) =>
           /\ pc = "done"
           /\ ret = Throw("delivery_start or collection_start is not a valid date string")
    /\ (pc = "done" /\ op = "getDuration" /\ args.dates.type = "object"
            /\ Parses(args.dates.delivery_start) /\ Parses(args.dates.collection_start)
            /\ IsArray(args.holidays)
            /\ (Unparseable(args.dates.charge_start)
                    \/ Unparseable(args.dates.charge_end))) =>
           ret.threw /\ ret.error \in InvalidDateErrors /\ ret.value = NoValue

\* getDuration over a good window with a charge_end that does not parse
C18_Witness ==
    /\ pc = "done"
    /\ op = "getDuration"
    /\ Parses(args.dates.delivery_start) /\ Parses(args.dates.collection_start)
    /\ Parses(args.dates.charge_start)
    /\ Unparseable(args.dates.charge_end)
    /\ ret.threw

\* C19: getEndDateByChargePeriod, given a valid start date, ends at once with
\* "charge period must be a whole number" for every chargePeriod < 1, and never
\* with that error for a chargePeriod >= 1.
C19_ChargePeriod ==
    (pc # "idle" /\ op = "getEndDateByChargePeriod") =>
        /\ (IsValid(args.date) /\ args.period < 1) =>
               pc = "done" /\ ret = Throw("charge period must be a whole number")
        /\ args.period >= 1 =>
               ~(ret.threw /\ ret.error = "charge period must be a whole number")

\* a negative charge period refused
C19_Witness ==
    /\ pc = "done"
    /\ op = "getEndDateByChargePeriod"
    /\ IsValid(args.date)
    /\ args.period = -1
    /\ IsArray(args.holidays)
    /\ ret.threw

\* a window whose end is no more than one civil day before its start
Countable(from, to) == ChicagoDayOfString(to) + 1 >= ChicagoDayOfString(from)

\* C20: getDuration ends at once with "dates must be a non-null object" when dates
\* is null, undefined or no object, and with "dates.delivery_start and
\* dates.collection_start are required" when either is absent or empty; an absent
\* or empty charge_start or charge_end causes no error.
C20_DatesArgument ==
    (pc # "idle" /\ op = "getDuration") =>
        LET dates == args.dates
        IN  /\ dates.type # "object" =>
                   pc = "done" /\ ret = Throw("dates must be a non-null object")
            /\ (dates.type = "object"
                    /\ (Blank(dates.delivery_start) \/ Blank(dates.collection_start))) =>
                   /\ pc = "done"
                   /\ ret = Throw("dates.delivery_start and dates.collection_start are required")
            /\ (dates.type = "object"
                    /\ Parses(dates.delivery_start) /\ Parses(dates.collection_start)
                    /\ IsArray(args.holidays)
                    /\ (Blank(dates.charge_start) \/ Blank(dates.charge_end))
                    /\ Parses(ChargeStartOf(dates)) /\ Parses(ChargeEndOf(dates))
                    /\ Countable(dates.delivery_start, dates.collection_start)
                    /\ Countable(ChargeStartOf(dates), ChargeEndOf(dates))) =>
                   ~ret.threw

\* an empty delivery_start refused
C20_Witness ==
    /\ pc = "done"
    /\ op = "getDuration"
    /\ args.dates.type = "object"
    /\ args.dates.delivery_start = EmptyString
    /\ Parses(args.dates.collection_start)
    /\ IsArray(args.holidays)
    /\ ret.threw

\* no loop of the running call has been entered: its variables are as the caller
\* left them
NoStepTaken ==
    /\ endDate = Null
    /\ chargeableDays = 0
    /\ calendarDays = 0
    /\ days = 0
    /\ lastTested = Null
    /\ lastDay = Null
    /\ active = NoValue
    /\ theDay = Null

\* C21: a call that raises a validation error has executed no day-walking and no
\* counting step before raising; getDuration with a charge_start or charge_end
\* that does not parse raises before the active duration is computed.
C21_ValidationFirst ==
    (pc = "done" /\ ret.threw) => NoStepTaken

\* two outcomes of one function: both threw the same error or both returned the
\* same value
SameResult(a, b) ==
    /\ a.threw = b.threw
    /\ a.error = b.error
    /\ ~a.threw => a.value = b.value

DefaultLoopBounded ==
    (op = "getDefaultStartDate" /\ pc \in {"default.loop", "done"}
        /\ IsArray(args.holidays)) =>
        /\ theDay.day - BaseDayOf(args.now) <= 2 + 3 * Len(args.holidays.items)
        /\ \A d \in BaseDayOf(args.now)..(theDay.day - 1) : ~Chargeable(d, args.holidays)

\* the walk has counted no more than chargePeriod days and has not gone past the
\* day on which the count is reached
GetEndLoopBounded ==
    (op = "getEndDateByChargePeriod" /\ pc \in {"getEnd.loop", "done"}
        /\ IsValid(args.date) /\ args.period >= 1 /\ IsArray(args.holidays)) =>
        /\ chargeableDays <= args.period
        /\ ChargeableIn(args.date.day, endDate.day - 1, args.holidays) < args.period

\* the count has made no more iterations than the window has civil days
CountLoopBounded ==
    (op = "countCfsBusinessDays" /\ pc \in {"count.loop", "done"} /\ ValidCountArgs) =>
        LET window == ChicagoDayOfDate(args.end) - ChicagoDayOfDate(args.date) + 1
        IN  calendarDays <= IF window > 0 THEN window ELSE 0

\* C23: every operation ends on valid input: the skip loop of getDefaultStartDate
\* at the next working day, the walk of getEndDateByChargePeriod after at most
\* chargePeriod chargeable days and the days skipped between them, the loop of
\* countCfsBusinessDays for every pair of valid start and end dates.
C23_LoopsEnd ==
    /\ DefaultLoopBounded
    /\ GetEndLoopBounded
    /\ CountLoopBounded

\* 1 when the America/Chicago civil day of the date is neither a weekend day nor a
\* holiday, else 0
ChargeableOnChicagoDay(d) ==
    IF Chargeable(ChicagoDayOfDate(d), args.holidays) THEN 1 ELSE 0

\* C24: every day getEndDateByChargePeriod or countCfsBusinessDays walks is tested
\* for weekend and for holiday on one civil day, its day in America/Chicago, also
\* when the date argument is of another zone: the day is counted exactly when that
\* day is neither a weekend day nor a holiday.
C24_OneCivilDay ==
    [][/\ (pc = "getEnd.loop" /\ pc' = "getEnd.loop") =>
              chargeableDays' = chargeableDays + ChargeableOnChicagoDay(endDate)
       /\ (pc = "count.loop" /\ calendarDays' = calendarDays + 1) =>
              days' = days + ChargeableOnChicagoDay(lastTested)]_vars

\* the call ended at once with this error
FailedWith(msg) == pc = "done" /\ ret = Throw(msg)

\* C25: with several arguments invalid at once the error is fixed by the order of
\* the checks: isHoliday and countCfsBusinessDays report the date before the
\* holidays; getEndDateByChargePeriod the date, then the charge period, then the
\* holidays; getDuration the dates argument, then the required strings, then the
\* holidays, then a string that does not parse.
C25_ErrorPrecedence ==
    /\ (pc # "idle" /\ op = "isHoliday" /\ ~IsValid(args.date)
            /\ ~IsArray(args.holidays)) =>
           FailedWith("testDate must be a valid date object")
    /\ (pc # "idle" /\ op = "countCfsBusinessDays"
            /\ (~IsValid(args.date) \/ ~IsValid(args.end)) /\ ~IsArray(args.holidays)) =>
           FailedWith("start and end must be valid date objects")
    /\ (pc # "idle" /\ op = "getEndDateByChargePeriod" /\ ~IsValid(args.date)
            /\ (args.period < 1 \/ ~IsArray(args.holidays))) =>
           FailedWith("startDate not a valid date object")
    /\ (pc # "idle" /\ op = "getEndDateByChargePeriod" /\ IsValid(args.date)
            /\ args.period < 1 /\ ~IsArray(args.holidays)) =>
           FailedWith("charge period must be a whole number")
    /\ (pc # "idle" /\ op = "getDuration" /\ args.dates.type # "object"
            /\ ~IsArray(args.holidays)) =>
           FailedWith("dates must be a non-null object")
    /\ (pc # "idle" /\ op = "getDuration" /\ args.dates.type = "object"
            /\ (Blank(args.dates.delivery_start) \/ Blank(args.dates.collection_start))
            /\ (~IsArray(args.holidays)
                    \/ Unparseable(args.dates.delivery_start)
                    \/ Unparseable(args.dates.collection_start))) =>
           FailedWith("dates.delivery_start and dates.collection_start are required")
    /\ (pc # "idle" /\ op = "getDuration" /\ args.dates.type = "object"
            /\ ~Blank(args.dates.delivery_start) /\ ~Blank(args.dates.collection_start)
            /\ ~IsArray(args.holidays)
            /\ (Unparseable(args.dates.delivery_start)
                    \/ Unparseable(args.dates.collection_start))) =>
           FailedWith("holidays must be an array")

\* getDuration with collection_start missing, a delivery_start that does not
\* parse and holidays that are no array
C25_Witness ==
    /\ pc = "done"
    /\ op = "getDuration"
    /\ args.dates.type = "object"
    /\ Unparseable(args.dates.delivery_start)
    /\ Blank(args.dates.collection_start)
    /\ ~IsArray(args.holidays)
    /\ ret = Throw("dates.delivery_start and dates.collection_start are required")

\* C26: the end date of getEndDateByChargePeriod is strictly later for a longer
\* charge period, is never before the start day, and is never moved to an earlier
\* day by a holiday added to the list.
C26_EndDateMonotone ==
    GetEndReturned =>
        /\ ChicagoDayOfDate(ret.value) >= ChicagoDayOfDate(args.date)
        /\ Len(before) = 2 =>
               LET earlier == before[2]
                   first == before[1].value
               IN  /\ earlier.period < args.period =>
                          /\ ChicagoDayOfDate(first) < ChicagoDayOfDate(ret.value)
                          /\ Timestamp(first) < Timestamp(ret.value)
                   /\ earlier.holidays # args.holidays =>
                          ChicagoDayOfDate(first) <= ChicagoDayOfDate(ret.value)

\* a holiday added on the day the first walk ended: the second walk ends later
C26_Witness ==
    /\ GetEndReturned
    /\ Len(before) = 2
    /\ before[2].holidays # args.holidays
    /\ ChicagoDayOfDate(before[1].value) \in HolidayDays(args.holidays)
    /\ ChicagoDayOfDate(before[1].value) < ChicagoDayOfDate(ret.value)

\* a longer charge period from a start date on a weekend
C26_WitnessLonger ==
    /\ GetEndReturned
    /\ Len(before) = 2
    /\ before[2].period + 2 <= args.period
    /\ WeekendDay(ChicagoDayOfDate(args.date))
    /\ ChicagoDayOfDate(before[1].value) < ChicagoDayOfDate(ret.value)

\* C27: a chargePeriod >= 1 that is no integer is taken without error and gives
\* the end date of the next integer above it: the chargeable days from the start
\* day to the returned day number the ceiling of chargePeriod.
C27_FractionRoundsUp ==
    /\ (pc # "idle" /\ op = "getEndDateByChargePeriod" /\ args.period >= 1) =>
           ~ret.threw
    /\ (GetEndReturned /\ args.parts > 0) =>
           LET s == ChicagoDayOfDate(args.date)
               e == ChicagoDayOfDate(ret.value)
           IN  /\ ChargeableIn(s, e, args.holidays) = args.period + 1
               /\ Chargeable(e, args.holidays)
    /\ (GetEndReturned /\ Len(before) = 2 /\ before[2].parts > 0
            /\ before[2].period >= 1) =>
           /\ args.period = before[2].period + 1
           /\ args.parts = 0
           /\ SameResult(ret, before[1])

\* a charge period of 1 + 2/Parts days from a Friday: the walk ends on Monday, as
\* it does for 2
C27_Witness ==
    /\ GetEndReturned
    /\ Len(before) = 2
    /\ before[2].period = 1
    /\ before[2].parts = 2
    /\ ~before[1].threw
    /\ args.date.day = 4
    /\ ret.value.day >= 7
    /\ ret.value = before[1].value

\* the charge window of getDuration lies inside its active window
ChargeInsideActive ==
    LET dates == args.dates
    IN  /\ ChicagoDayOfString(dates.delivery_start) <= ChicagoDayOfString(ChargeStartOf(dates))
        /\ ChicagoDayOfString(ChargeStartOf(dates)) <= ChicagoDayOfString(ChargeEndOf(dates))
        /\ ChicagoDayOfString(ChargeEndOf(dates)) <= ChicagoDayOfString(dates.collection_start)

\* C28: countCfsBusinessDays is monotone in the window: a window inside another
\* has no more days and no more calendarDays than the outer one; in every result
\* 0 <= days <= calendarDays; getDuration gives chargeDays <= activeDays when the
\* charge window lies inside the active window.
C28_WindowMonotone ==
    /\ CountReturned =>
           /\ 0 <= ret.value.days
           /\ ret.value.days <= ret.value.calendarDays
    /\ (CountReturned /\ Len(before) = 2) =>
           /\ ret.value.days <= before[1].value.days
           /\ ret.value.calendarDays <= before[1].value.calendarDays
    /\ (DurationReturned /\ ChargeInsideActive) =>
           ret.value.chargeDays <= ret.value.activeDays

\* an inner window that leaves out a working day of the outer one and keeps its
\* weekend
C28_Witness ==
    /\ CountReturned
    /\ Len(before) = 2
    /\ before[2].date.day < args.date.day
    /\ args.end.day < before[2].end.day
    /\ 1 <= ret.value.days
    /\ ret.value.days < ret.value.calendarDays
    /\ ret.value.days < before[1].value.days

====
